---- MODULE Spec2Model ----
(***************************************************************************)
(* Model of app.py: the POnlyParser content extractor (an event-driven     *)
(* state machine over start-tag, end-tag and data events), the sentence    *)
(* splitter, tokenizer, keyword counter and frequency summarizer, and the  *)
(* per-document driver process_one with the batch loop around it.          *)
(*                                                                         *)
(* Text is a sequence of characters.  A character is a one-letter string;  *)
(* the non-ASCII characters of the source are named: "h_da" is the Hangul  *)
(* syllable U+B2E4, "ELLIPSIS" is U+2026, and the other "h_.." strings are *)
(* the Hangul syllables of the stopword list.  Indices start at 1.         *)
(***************************************************************************)
EXTENDS Integers, Sequences, FiniteSets, TLC

VARIABLES
    p,               \* the POnlyParser object (its eight fields)
    open,            \* ghost: the elements open in the document, outermost first
    last,            \* ghost: the event processed last, with the two lists as they were before it
    seen,            \* ghost: facts about the events processed so far
    nev,             \* number of events processed
    MAX_SENT_CHARS,  \* the module-level setting MAX_SENT_CHARS
    text,            \* summarizer: the text the functions are called on
    out,             \* summarizer: the call made last and what it returned
    urls,            \* batch: the list of URLs
    web,             \* batch: what fetching and parsing each listed document does
    results,         \* batch: the results list being built
    job              \* batch: the process_one call in progress

vars == <<p, open, last, seen, nev, MAX_SENT_CHARS, text, out,
          urls, web, results, job>>

(***************************************************************************)
(* Settings                                                                *)
(***************************************************************************)
DEFAULT_MAX_SENTENCES == 3
DEFAULT_TOPK == 5
DEFAULT_MAX_SENT_CHARS == 300

(***************************************************************************)
(* Characters                                                              *)
(***************************************************************************)
LowerLetters ==
    <<"a","b","c","d","e","f","g","h","i","j","k","l","m",
      "n","o","p","q","r","s","t","u","v","w","x","y","z">>
UpperLetters ==
    <<"A","B","C","D","E","F","G","H","I","J","K","L","M",
      "N","O","P","Q","R","S","T","U","V","W","X","Y","Z">>
Hangul ==
    {"h_geu", "h_ri", "h_go", "h_reo", "h_na", "h_rae", "h_seo", "h_tto", "h_neun",
     "h_han", "h_mit", "h_deung", "h_i", "h_jeo", "h_geot", "h_su", "h_e", "h_ui",
     "h_eun", "h_ga", "h_eul", "h_reul", "h_eu", "h_ro", "h_bu", "h_teo", "h_kka",
     "h_ji", "h_do", "h_man", "h_bo", "h_da",
     "h_bon", "h_mun", "h_chu", "h_chul", "h_sil", "h_pae"}
Range(s) == {s[i] : i \in 1..Len(s)}
Letters == Range(LowerLetters) \cup Range(UpperLetters) \cup Hangul
\* [A-Za-z가-힣]
IsLetter(c) == c \in Letters
\* \s
IsSpace(c) == c \in {" ", "\t", "\n"}
\* str.lower() on one character
LowerChar(c) ==
    IF c \in Range(UpperLetters)
    THEN LowerLetters[CHOOSE i \in 1..Len(UpperLetters) : UpperLetters[i] = c]
    ELSE c
Lower(s) == [i \in 1..Len(s) |-> LowerChar(s[i])]

STOPWORDS ==
    {<<"h_geu","h_ri","h_go">>, <<"h_geu","h_reo","h_na">>, <<"h_geu","h_rae","h_seo">>,
     <<"h_tto","h_neun">>, <<"h_tto","h_han">>, <<"h_mit">>, <<"h_deung">>, <<"h_i">>,
     <<"h_geu">>, <<"h_jeo">>, <<"h_geot">>, <<"h_su">>, <<"h_deung","h_deung">>,
     <<"h_e">>, <<"h_ui">>, <<"h_eun">>, <<"h_neun">>, <<"h_ga">>, <<"h_eul">>,
     <<"h_reul">>, <<"h_eu","h_ro">>, <<"h_ro">>, <<"h_e","h_seo">>, <<"h_bu","h_teo">>,
     <<"h_kka","h_ji">>, <<"h_do">>, <<"h_man">>, <<"h_bo","h_da">>,
     <<"h_bo","h_da","h_do">>,
     <<"t","h","e">>, <<"a">>, <<"a","n">>, <<"a","n","d">>, <<"o","r">>, <<"b","u","t">>,
     <<"i","f">>, <<"t","h","e","n">>, <<"e","l","s","e">>, <<"a","l","s","o">>,
     <<"t","o">>, <<"o","f">>, <<"i","n">>, <<"o","n">>, <<"a","t">>, <<"f","o","r">>,
     <<"f","r","o","m">>, <<"w","i","t","h">>, <<"b","y">>, <<"a","s">>, <<"i","s">>,
     <<"a","r","e">>, <<"w","a","s">>, <<"w","e","r","e">>, <<"b","e">>,
     <<"b","e","e","n">>, <<"b","e","i","n","g">>, <<"t","h","i","s">>,
     <<"t","h","a","t">>, <<"t","h","e","s","e">>, <<"t","h","o","s","e">>}

(***************************************************************************)
(* String helpers of the Python runtime                                    *)
(***************************************************************************)
RECURSIVE LStrip(_)
LStrip(s) == IF s # <<>> /\ IsSpace(Head(s)) THEN LStrip(Tail(s)) ELSE s
RECURSIVE RStrip(_)
RStrip(s) ==
    IF s # <<>> /\ IsSpace(s[Len(s)]) THEN RStrip(SubSeq(s, 1, Len(s) - 1)) ELSE s
\* str.strip()
Strip(s) == RStrip(LStrip(s))

\* " ".join(parts)
RECURSIVE Join(_)
Join(parts) ==
    IF parts = <<>> THEN <<>>
    ELSE IF Len(parts) = 1 THEN parts[1]
    ELSE parts[1] \o <<" ">> \o Join(Tail(parts))

\* re.sub(r"\s+", " ", s): every run of whitespace becomes one space
RECURSIVE CollapseSpace(_, _)
CollapseSpace(s, inRun) ==
    IF s = <<>> THEN <<>>
    ELSE IF IsSpace(Head(s))
         THEN (IF inRun THEN <<>> ELSE <<" ">>) \o CollapseSpace(Tail(s), TRUE)
         ELSE <<Head(s)>> \o CollapseSpace(Tail(s), FALSE)

\* index of the first "]" of s at or after position i, 0 when there is none
RECURSIVE FindClose(_, _)
FindClose(s, i) ==
    IF i > Len(s) THEN 0 ELSE IF s[i] = "]" THEN i ELSE FindClose(s, i + 1)

\* index of the first "[" or "]" of s at or after position i, 0 when there is none
RECURSIVE FindBracket(_, _)
FindBracket(s, i) ==
    IF i > Len(s) THEN 0 ELSE IF s[i] \in {"[", "]"} THEN i ELSE FindBracket(s, i + 1)

\* the pattern \[[^\[\]]+\]: a span must not contain an opening bracket
RECURSIVE StripBrackets_NoNested(_, _)
StripBrackets_NoNested(s, i) ==
    IF i > Len(s) THEN <<>>
    ELSE IF /\ s[i] = "[" /\ i < Len(s) /\ s[i + 1] \notin {"[", "]"}
            /\ FindBracket(s, i + 1) # 0 /\ s[FindBracket(s, i + 1)] = "]"
         THEN <<" ">> \o StripBrackets_NoNested(s, FindBracket(s, i + 1) + 1)
         ELSE <<s[i]>> \o StripBrackets_NoNested(s, i + 1)

\* re.sub(r"\[[^\]]+\]", " ", s): leftmost non-overlapping matches; a match
\* starts at a "[" whose next character exists and is not "]", and runs to
\* the first "]" after it
RECURSIVE StripBrackets(_, _)
StripBrackets(s, i) ==
    IF i > Len(s) THEN <<>>
    ELSE IF s[i] = "[" /\ i < Len(s) /\ s[i + 1] # "]" /\ FindClose(s, i + 1) # 0
         THEN <<" ">> \o StripBrackets(s, FindClose(s, i + 1) + 1)
         ELSE <<s[i]>> \o StripBrackets(s, i + 1)

\* the positions i (a cut between s[i] and s[i+1]) the split pattern matches:
\* (?<=[.!?])(?=\s|\[)  or  (?<=h_da\.)(?=\s|\[)
IsCut(s, i) ==
    /\ i >= 1 /\ i < Len(s)
    /\ \/ s[i] \in {".", "!", "?"}
       \/ (i >= 2 /\ s[i - 1] = "h_da" /\ s[i] = ".")
    /\ (IsSpace(s[i + 1]) \/ s[i + 1] = "[")

\* re.split at the cuts: from is the start of the part being read
RECURSIVE SplitAt(_, _, _)
SplitAt(s, from, i) ==
    IF i > Len(s) THEN <<SubSeq(s, from, Len(s))>>
    ELSE IF IsCut(s, i) THEN <<SubSeq(s, from, i)>> \o SplitAt(s, i + 1, i + 1)
    ELSE SplitAt(s, from, i + 1)

RECURSIVE KeepLong(_)
KeepLong(parts) ==
    IF parts = <<>> THEN <<>>
    ELSE (IF Len(Strip(Head(parts))) > 2 THEN <<Strip(Head(parts))>> ELSE <<>>)
         \o KeepLong(Tail(parts))

split_sentences(txt) ==
    LET t == Strip(CollapseSpace(txt, FALSE))
    IN  IF t = <<>> THEN <<>>
        ELSE KeepLong(SplitAt(StripBrackets(t, 1), 1, 1))

\* the pattern with + in place of {2,}: runs of one letter count too
RECURSIVE LetterRuns_OneOrMore(_, _, _)
LetterRuns_OneOrMore(s, i, run) ==
    LET flush == IF Len(run) >= 1 THEN <<run>> ELSE <<>>
    IN  IF i > Len(s) THEN flush
        ELSE IF IsLetter(s[i]) THEN LetterRuns_OneOrMore(s, i + 1, Append(run, s[i]))
        ELSE flush \o LetterRuns_OneOrMore(s, i + 1, <<>>)

\* re.findall(r"[A-Za-z가-힣]{2,}", s): the maximal runs of letters
\* of length two or more, in order
RECURSIVE LetterRuns(_, _, _)
LetterRuns(s, i, run) ==
    LET flush == IF Len(run) >= 2 THEN <<run>> ELSE <<>>
    IN  IF i > Len(s) THEN flush
        ELSE IF IsLetter(s[i]) THEN LetterRuns(s, i + 1, Append(run, s[i]))
        ELSE flush \o LetterRuns(s, i + 1, <<>>)

tokenize(txt) ==
    LET runs == LetterRuns(txt, 1, <<>>)
    IN  [i \in 1..Len(runs) |-> Lower(runs[i])]

RECURSIVE DropStopwords(_)
DropStopwords(toks) ==
    IF toks = <<>> THEN <<>>
    ELSE (IF Head(toks) \in STOPWORDS THEN <<>> ELSE <<Head(toks)>>)
         \o DropStopwords(Tail(toks))

(***************************************************************************)
(* collections.Counter: a sequence of <<key, count>> in insertion order    *)
(***************************************************************************)
CounterKeys(c) == [i \in 1..Len(c) |-> c[i][1]]
CounterGet(c, k) ==
    IF \E i \in 1..Len(c) : c[i][1] = k
    THEN c[CHOOSE i \in 1..Len(c) : c[i][1] = k][2]
    ELSE 0
CounterAdd(c, k) ==
    IF \E i \in 1..Len(c) : c[i][1] = k
    THEN [i \in 1..Len(c) |-> IF c[i][1] = k THEN <<k, c[i][2] + 1>> ELSE c[i]]
    ELSE Append(c, <<k, 1>>)
RECURSIVE Counter(_)
Counter(toks) ==
    IF toks = <<>> THEN <<>>
    ELSE CounterAdd(Counter(SubSeq(toks, 1, Len(toks) - 1)), toks[Len(toks)])

\* an unstable descending sort: x goes in front of the entries of equal key
RECURSIVE InsertDesc_TiesFirst(_, _, _)
InsertDesc_TiesFirst(sorted, x, key) ==
    IF sorted = <<>> THEN <<x>>
    ELSE IF key[Head(sorted)] > key[x]
    THEN <<Head(sorted)>> \o InsertDesc_TiesFirst(Tail(sorted), x, key)
    ELSE <<x>> \o sorted

\* insert x into a list sorted by descending key, behind the entries whose
\* key is at least x's: what a stable sort with reverse=True does
RECURSIVE InsertDesc(_, _, _)
InsertDesc(sorted, x, key) ==
    IF sorted = <<>> THEN <<x>>
    ELSE IF key[Head(sorted)] >= key[x] THEN <<Head(sorted)>> \o InsertDesc(Tail(sorted), x, key)
    ELSE <<x>> \o sorted
\* the same sort without reverse=True: ascending keys, stable
RECURSIVE InsertAscKey(_, _, _)
InsertAscKey(sorted, x, key) ==
    IF sorted = <<>> THEN <<x>>
    ELSE IF key[Head(sorted)] <= key[x]
    THEN <<Head(sorted)>> \o InsertAscKey(Tail(sorted), x, key)
    ELSE <<x>> \o sorted
RECURSIVE SortedDesc_NoReverse(_, _)
SortedDesc_NoReverse(n, key) ==
    IF n = 0 THEN <<>> ELSE InsertAscKey(SortedDesc_NoReverse(n - 1, key), n, key)

\* sorted(range(n), key=lambda i: key[i], reverse=True), indices from 1
RECURSIVE SortedDesc(_, _)
SortedDesc(n, key) ==
    IF n = 0 THEN <<>> ELSE InsertDesc(SortedDesc(n - 1, key), n, key)

RECURSIVE InsertAsc(_, _)
InsertAsc(sorted, x) ==
    IF sorted = <<>> THEN <<x>>
    ELSE IF Head(sorted) <= x THEN <<Head(sorted)>> \o InsertAsc(Tail(sorted), x)
    ELSE <<x>> \o sorted
\* sorted(xs) for a list of integers
RECURSIVE Sorted(_)
Sorted(xs) ==
    IF xs = <<>> THEN <<>> ELSE InsertAsc(Sorted(SubSeq(xs, 1, Len(xs) - 1)), xs[Len(xs)])

\* xs[:n] for n >= 0
Take(xs, n) == SubSeq(xs, 1, IF n < Len(xs) THEN n ELSE Len(xs))

\* Counter.most_common(k): the k entries of highest count, equal counts in
\* insertion order
most_common(c, k) ==
    LET counts == [i \in 1..Len(c) |-> c[i][2]]
        order  == Take(SortedDesc(Len(c), counts), k)
    IN  [i \in 1..Len(order) |-> c[order[i]]]

\* keyword_topk that counts the stopwords too
keyword_topk_KeepStopwords(txt, k) ==
    LET freq == Counter(tokenize(txt))
    IN  [kws |-> CounterKeys(most_common(freq, k)), freq |-> freq]

\* keyword_topk returns the pair (keywords, freq)
keyword_topk(txt, k) ==
    LET freq == Counter(DropStopwords(tokenize(txt)))
    IN  [kws |-> CounterKeys(most_common(freq, k)), freq |-> freq]

\* a cut one character late: s[:MAX_SENT_CHARS] + ELLIPSIS
Truncate_OffByOne(s) ==
    IF Len(s) <= MAX_SENT_CHARS THEN s
    ELSE SubSeq(s, 1, MAX_SENT_CHARS) \o <<"ELLIPSIS">>

\* s if len(s) <= MAX_SENT_CHARS else s[:MAX_SENT_CHARS-1] + ELLIPSIS
Truncate(s) ==
    IF Len(s) <= MAX_SENT_CHARS THEN s
    ELSE SubSeq(s, 1, MAX_SENT_CHARS - 1) \o <<"ELLIPSIS">>

RECURSIVE SumSeq(_)
SumSeq(xs) == IF xs = <<>> THEN 0 ELSE Head(xs) + SumSeq(Tail(xs))

\* the score of one sentence under the document's frequency table
SentenceScore(s, global_freq) ==
    LET toks == DropStopwords(tokenize(s))
    IN  SumSeq([i \in 1..Len(toks) |-> CounterGet(global_freq, toks[i])])

\* the scores list of summarize
Scores(txt, sents) ==
    LET global_freq == Counter(DropStopwords(tokenize(txt)))
    IN  [i \in 1..Len(sents) |-> SentenceScore(sents[i], global_freq)]

\* top_idx without the outer sorted(): the picks stay in score order
TopIdx_ScoreOrder(scores, n) ==
    Take(SortedDesc(Len(scores), scores), n)

\* top_idx of summarize (indices from 1)
TopIdx(scores, n) ==
    Sorted(Take(SortedDesc(Len(scores), scores), n))

summarize(txt, n) ==
    LET sents == split_sentences(txt)
    IN  IF sents = <<>> THEN <<>>
        ELSE IF Len(sents) <= n
        THEN (IF MAX_SENT_CHARS <= 0 THEN Join(sents) ELSE Truncate(Join(sents)))
        ELSE LET top_idx == TopIdx(Scores(txt, sents), n)
                 chosen  == [i \in 1..Len(top_idx) |-> sents[top_idx[i]]]
             IN  Join(IF MAX_SENT_CHARS > 0
                      THEN [i \in 1..Len(chosen) |-> Truncate(chosen[i])]
                      ELSE chosen)

(***************************************************************************)
(* POnlyParser.  An attrs list is a sequence of <<key, value>>; a value is *)
(* the sequence of its whitespace-separated words (<<>> for no value), so  *)
(* <<"toc">> is the string "toc" and <<"navbox", "x">> is "navbox x".      *)
(***************************************************************************)
NewParser ==
    [in_title |-> FALSE, in_p |-> FALSE, in_content |-> FALSE,
     content_div_depth |-> 0, skip_stack |-> <<>>, exclude_stack |-> <<>>,
     title_parts |-> <<>>, paras |-> <<>>]

RECURSIVE Get(_, _)
Get(attrs, key) ==
    IF attrs = <<>> THEN <<>>
    ELSE IF Head(attrs)[1] = key THEN Head(attrs)[2]
    ELSE Get(Tail(attrs), key)

HasClass(attrs, name) == name \in Range(Get(attrs, "class"))

HasAnyClass(attrs, names) == \E n \in names : n \in Range(Get(attrs, "class"))

\* the excluded flag handle_starttag computes
IsExcluded(tag, attrs) ==
    IF tag \in {"nav", "footer", "aside", "table"} THEN TRUE
    ELSE IF tag = "div"
    THEN \/ HasClass(attrs, "navbox")
         \/ HasClass(attrs, "mw-references-wrap")
         \/ HasClass(attrs, "hatnote")
         \/ Get(attrs, "id") \in {<<"toc">>, <<"catlinks">>}
    ELSE IF tag \in {"ol", "ul"} THEN HasClass(attrs, "references")
    ELSE IF tag = "table" THEN HasClass(attrs, "infobox") \/ HasClass(attrs, "navbox")
    ELSE IF tag = "sup" THEN HasClass(attrs, "reference")
    ELSE FALSE

IsContentRoot(attrs) ==
    \/ Get(attrs, "id") \in {<<"mw-content-text">>, <<"content">>}
    \/ HasAnyClass(attrs, {"mw-parser-output", "mw-body", "mw-body-content", "content"})

\* the content-container block of handle_starttag
EnterDiv(q, tag, attrs) ==
    IF tag # "div" THEN q
    ELSE IF IsContentRoot(attrs)
    THEN [q EXCEPT !.content_div_depth = @ + 1, !.in_content = TRUE]
    ELSE IF q.in_content THEN [q EXCEPT !.content_div_depth = @ + 1]
    ELSE q

\* EnterCollect without the fallback for pages that have no content container
EnterCollect_NoFallback(q, tag) ==
    LET q1 == IF tag = "p" /\ q.in_content /\ q.exclude_stack = <<>>
              THEN [q EXCEPT !.in_p = TRUE] ELSE q
    IN  IF tag = "title" THEN [q1 EXCEPT !.in_title = TRUE] ELSE q1

\* the collecting-tags block of handle_starttag
EnterCollect(q, tag) ==
    LET q1 == IF /\ tag = "p"
                 /\ (q.in_content \/ q.content_div_depth = 0)
                 /\ q.exclude_stack = <<>>
              THEN [q EXCEPT !.in_p = TRUE] ELSE q
    IN  IF tag = "title" THEN [q1 EXCEPT !.in_title = TRUE] ELSE q1

handle_starttag(q, tag, attrs) ==
    IF tag \in {"script", "style"}
    THEN [q EXCEPT !.skip_stack = Append(@, tag)]
    ELSE IF IsExcluded(tag, attrs)
    THEN [q EXCEPT !.exclude_stack = Append(@, tag)]
    ELSE EnterCollect(EnterDiv(q, tag, attrs), tag)

Top(stack) == stack[Len(stack)]
Pop(stack) == SubSeq(stack, 1, Len(stack) - 1)

\* LeaveExcluded that compares the tag with the bottom of the stack
LeaveExcluded_Bottom(q, tag) ==
    IF q.exclude_stack # <<>> /\ q.exclude_stack[1] = tag
    THEN [q EXCEPT !.exclude_stack = Pop(@)] ELSE q

\* the exclude-region block of handle_endtag
LeaveExcluded(q, tag) ==
    IF q.exclude_stack # <<>> /\ Top(q.exclude_stack) = tag
    THEN [q EXCEPT !.exclude_stack = Pop(@)] ELSE q

\* LeaveDiv that counts down at every </div>, inside the content region or not
LeaveDiv_Unguarded(q, tag) ==
    IF tag = "div"
    THEN LET d == q.content_div_depth - 1
         IN  [q EXCEPT !.content_div_depth = d,
                       !.in_content = IF d = 0 THEN FALSE ELSE @]
    ELSE q

\* the content-container block of handle_endtag
LeaveDiv(q, tag) ==
    IF q.in_content /\ tag = "div"
    THEN LET d == IF q.content_div_depth > 0
                  THEN q.content_div_depth - 1 ELSE q.content_div_depth
         IN  [q EXCEPT !.content_div_depth = d,
                       !.in_content = IF d = 0 THEN FALSE ELSE @]
    ELSE q

\* the collecting-tags block of handle_endtag
LeaveCollect(q, tag) ==
    [q EXCEPT !.in_p = IF tag = "p" THEN FALSE ELSE @,
              !.in_title = IF tag = "title" THEN FALSE ELSE @]

handle_endtag(q, tag) ==
    IF tag \in {"script", "style"}
    THEN IF q.skip_stack # <<>> /\ Top(q.skip_stack) = tag
         THEN [q EXCEPT !.skip_stack = Pop(@)] ELSE q
    ELSE LeaveCollect(LeaveDiv(LeaveExcluded(q, tag), tag), tag)

\* handle_data that tests in_p before in_title
handle_data_ParagraphFirst(q, data) ==
    IF q.skip_stack # <<>> \/ q.exclude_stack # <<>> THEN q
    ELSE LET txt == Strip(data)
         IN  IF txt = <<>> THEN q
             ELSE IF q.in_p /\ (q.in_content \/ q.content_div_depth = 0)
             THEN [q EXCEPT !.paras = Append(@, txt)]
             ELSE IF q.in_title THEN [q EXCEPT !.title_parts = Append(@, txt)]
             ELSE q

\* handle_data that forgets the skip stack
handle_data_IgnoreSkip(q, data) ==
    IF q.exclude_stack # <<>> THEN q
    ELSE LET txt == Strip(data)
         IN  IF txt = <<>> THEN q
             ELSE IF q.in_title THEN [q EXCEPT !.title_parts = Append(@, txt)]
             ELSE IF q.in_p /\ (q.in_content \/ q.content_div_depth = 0)
             THEN [q EXCEPT !.paras = Append(@, txt)]
             ELSE q

handle_data(q, data) ==
    IF q.skip_stack # <<>> \/ q.exclude_stack # <<>> THEN q
    ELSE LET txt == Strip(data)
         IN  IF txt = <<>> THEN q
             ELSE IF q.in_title THEN [q EXCEPT !.title_parts = Append(@, txt)]
             ELSE IF q.in_p /\ (q.in_content \/ q.content_div_depth = 0)
             THEN [q EXCEPT !.paras = Append(@, txt)]
             ELSE q

get_title(q) == Strip(Join(q.title_parts))
get_text(q) == Strip(Join(q.paras))

(***************************************************************************)
(* The parser fed one event at a time.                                     *)
(*                                                                         *)
(* The ghost variable open holds the elements that are open in the         *)
(* document: a start tag opens an element, an end tag closes the innermost *)
(* open element of its tag.  In a well-nested sequence every end tag is    *)
(* that of the innermost open element.                                     *)
(***************************************************************************)
MaxEvents == 5
MaxDepth == 3

Class(words) == <<<<"class", words>>>>
Id(word) == <<<<"id", <<word>>>>>>

StartInputs ==
    {[tag |-> "script", attrs |-> <<>>],
     [tag |-> "style",  attrs |-> <<>>],
     [tag |-> "nav",    attrs |-> <<>>],
     [tag |-> "table",  attrs |-> Class(<<"infobox">>)],
     [tag |-> "div",    attrs |-> <<>>],
     [tag |-> "div",    attrs |-> Class(<<"noprint", "navbox">>)],
     [tag |-> "div",    attrs |-> Id("toc")],
     [tag |-> "div",    attrs |-> Id("mw-content-text")],
     [tag |-> "div",    attrs |-> Class(<<"mw-parser-output">>)],
     [tag |-> "ul",     attrs |-> <<>>],
     [tag |-> "ul",     attrs |-> Class(<<"references">>)],
     [tag |-> "sup",    attrs |-> Class(<<"reference">>)],
     [tag |-> "p",      attrs |-> <<>>],
     [tag |-> "title",  attrs |-> <<>>]}

Tags == {e.tag : e \in StartInputs}

DataInputs == {<<" ">>, <<"x">>, <<" ", "y", "\n">>}

\* the elements the specification excludes: nav, footer, aside, table,
\* div.navbox / .mw-references-wrap / .hatnote / #toc / #catlinks,
\* ol/ul.references, sup.reference
ExcludedElement(tag, attrs) ==
    \/ tag \in {"nav", "footer", "aside", "table"}
    \/ /\ tag = "div"
       /\ \/ Range(Get(attrs, "class")) \cap {"navbox", "mw-references-wrap", "hatnote"} # {}
          \/ Get(attrs, "id") \in {<<"toc">>, <<"catlinks">>}
    \/ tag \in {"ol", "ul"} /\ "references" \in Range(Get(attrs, "class"))
    \/ tag = "sup" /\ "reference" \in Range(Get(attrs, "class"))

\* a content-root div: id mw-content-text / content, or class
\* mw-parser-output / mw-body / mw-body-content / content
ContentRootDiv(tag, attrs) ==
    /\ tag = "div"
    /\ \/ Get(attrs, "id") \in {<<"mw-content-text">>, <<"content">>}
       \/ Range(Get(attrs, "class"))
            \cap {"mw-parser-output", "mw-body", "mw-body-content", "content"} # {}

Kind(tag, attrs) ==
    IF tag \in {"script", "style"} THEN "skip"
    ELSE IF ExcludedElement(tag, attrs) THEN "excluded"
    ELSE IF ContentRootDiv(tag, attrs) THEN "root"
    ELSE "plain"

\* open without its innermost element of the given tag
RECURSIVE CloseInnermost(_, _)
CloseInnermost(els, tag) ==
    IF els = <<>> THEN <<>>
    ELSE IF Top(els).tag = tag THEN Pop(els)
    ELSE Append(CloseInnermost(Pop(els), tag), Top(els))

InKind(k) == \E i \in 1..Len(open) : open[i].kind = k
InTag(t) == \E i \in 1..Len(open) : open[i].tag = t

Event(op, data) ==
    [op |-> op, data |-> data, paras |-> p.paras, title_parts |-> p.title_parts]

NoText ==
    /\ MAX_SENT_CHARS = DEFAULT_MAX_SENT_CHARS
    /\ text = <<>> /\ out = [op |-> "none", arg |-> 0, ret |-> <<>>]
NoBatch ==
    /\ urls = <<>> /\ web = <<>> /\ results = <<>>
    /\ job = [pc |-> "off", i |-> 0, html |-> <<>>, title |-> <<>>, body |-> <<>>,
              err |-> <<>>]
TextVars == <<MAX_SENT_CHARS, text, out>>
BatchVars == <<urls, web, results, job>>
ParserVars == <<p, open, last, seen, nev>>

NoParser ==
    /\ p = NewParser
    /\ open = <<>>
    /\ last = [op |-> "none", data |-> <<>>, paras |-> <<>>, title_parts |-> <<>>]
    /\ seen = [root |-> FALSE, nested_p |-> FALSE, nested_title |-> FALSE,
               excluded |-> FALSE]
    /\ nev = 0

\* p = POnlyParser(), nothing fed yet
Init == NoParser /\ NoText /\ NoBatch

\* the parser receives a start tag
StartTag(e) ==
    /\ nev < MaxEvents
    /\ Len(open) < MaxDepth
    /\ p' = handle_starttag(p, e.tag, e.attrs)
    /\ open' = Append(open, [tag |-> e.tag, kind |-> Kind(e.tag, e.attrs)])
    /\ last' = Event("start", <<>>)
    /\ seen' = [root |-> seen.root \/ Kind(e.tag, e.attrs) = "root",
                nested_p |-> seen.nested_p \/ (e.tag = "p" /\ InTag("p")),
                nested_title |-> seen.nested_title \/ (e.tag = "title" /\ InTag("title")),
                excluded |-> seen.excluded \/ Kind(e.tag, e.attrs) = "excluded"]
    /\ nev' = nev + 1
    /\ UNCHANGED <<TextVars, BatchVars>>

\* the parser receives the end tag of the innermost open element
EndTag ==
    /\ nev < MaxEvents
    /\ open # <<>>
    /\ p' = handle_endtag(p, Top(open).tag)
    /\ open' = Pop(open)
    /\ last' = Event("end", <<>>)
    /\ nev' = nev + 1
    /\ UNCHANGED <<seen, TextVars, BatchVars>>

\* the parser receives an end tag, matching or not
AnyEndTag(tag) ==
    /\ nev < MaxEvents
    /\ p' = handle_endtag(p, tag)
    /\ open' = CloseInnermost(open, tag)
    /\ last' = Event("end", <<>>)
    /\ nev' = nev + 1
    /\ UNCHANGED <<seen, TextVars, BatchVars>>

\* the parser receives character data
Data(d) ==
    /\ nev < MaxEvents
    /\ p' = handle_data(p, d)
    /\ last' = Event("data", d)
    /\ nev' = nev + 1
    /\ UNCHANGED <<open, seen, TextVars, BatchVars>>

\* well-nested documents
Next ==
    \/ \E e \in StartInputs : StartTag(e)
    \/ EndTag
    \/ \E d \in DataInputs : Data(d)

Spec == Init /\ [][Next]_vars

\* arbitrary event sequences
NextAny ==
    \/ \E e \in StartInputs : StartTag(e)
    \/ \E t \in Tags : AnyEndTag(t)
    \/ \E d \in DataInputs : Data(d)

SpecAny == Init /\ [][NextAny]_vars

(***************************************************************************)
(* Properties of the extractor                                             *)
(***************************************************************************)
Collected == p.paras # last.paras \/ p.title_parts # last.title_parts

\* C1: in a well-nested document, character data that lies inside an
\* excluded element (between its start tag and its matching end tag) is
\* appended neither to paras nor to title_parts, whatever is nested in the
\* excluded element.
C1_ExcludedTextNeverCollected ==
    (last.op = "data" /\ InKind("excluded")) => ~Collected

\* C2: for every event sequence, character data that arrives while a script
\* or style element is open is appended neither to paras nor to title_parts.
C2_SkipTextNeverCollected ==
    (last.op = "data" /\ InKind("skip")) => ~Collected

\* non-blank data inside a script that sits in an open <p> of the content
\* container
C2_Witness ==
    /\ last.op = "data" /\ Strip(last.data) # <<>>
    /\ Len(open) = 3
    /\ open[1].kind = "root" /\ open[2].tag = "p" /\ open[3].tag = "script"
    /\ p.in_p /\ p.in_content

\* C3: in a well-nested document with a content-root div, text of a <p>
\* outside every content-root div is never appended to paras; stated for
\* the text that follows the first content-root div.
C3_StrayParagraphIgnored ==
    (last.op = "data" /\ seen.root /\ ~InKind("root")) => p.paras = last.paras

\* C4: in a well-nested document, in_content is true at every event between
\* the start tag of a content-root div and its matching end tag.
C4_ContentRegionActive ==
    InKind("root") => p.in_content

\* C5: in a well-nested document without a content-root div and without
\* nested <p>, non-blank data inside a <p> and outside script/style,
\* excluded elements and <title> is appended, stripped, to paras.
C5_FallbackCollects ==
    ( /\ last.op = "data" /\ Strip(last.data) # <<>>
      /\ ~seen.root /\ ~seen.nested_p
      /\ InTag("p")
      /\ ~InKind("skip") /\ ~InKind("excluded") /\ ~InTag("title") )
    => /\ p.paras = Append(last.paras, Strip(last.data))
       /\ p.title_parts = last.title_parts

\* a second paragraph fragment, with surrounding blanks, collected on a
\* page that has no content container
C5_Witness ==
    /\ last.op = "data" /\ Strip(last.data) # <<>> /\ Strip(last.data) # last.data
    /\ ~seen.root /\ ~seen.nested_p
    /\ InTag("p")
    /\ ~InKind("skip") /\ ~InKind("excluded") /\ ~InTag("title")
    /\ Len(p.paras) = 2

(***************************************************************************)
(* The text functions called on bounded inputs.  A text is a concatenation *)
(* of at most MaxPieces pieces, or the body of the documented example.     *)
(***************************************************************************)
MaxPieces == 3
MaxArg == 3

Pieces ==
    {<<"a","b"," ","c","d","."," ">>,
     <<"c","d","!"," ">>,
     <<"t","h","e"," ","A","b","?","\t"," ">>,
     <<"x"," ","d","[","1","]"," ","a","b","7","c","e",".","[","]"," ">>,
     <<"h_ga","h_bo","h_da",".","[","[","2","]","]","h_bo","h_da",","," ">>}

RECURSIVE Concat(_)
Concat(parts) == IF parts = <<>> THEN <<>> ELSE Head(parts) \o Concat(Tail(parts))

CatsBody ==
    <<"C","a","t","s"," ","a","r","e"," ","m","a","m","m","a","l","s","."," ",
      "D","o","g","s"," ","a","r","e"," ","m","a","m","m","a","l","s"," ","t","o","o","."," ",
      "C","a","t","s"," ","a","n","d"," ","d","o","g","s"," ","a","r","e"," ",
      "p","e","t","s",".">>

Bodies ==
    {Concat(ps) : ps \in UNION {[1..k -> Pieces] : k \in 0..MaxPieces}} \cup {CatsBody}

Budgets == {-1, 0, 1, 9, DEFAULT_MAX_SENT_CHARS}

InitText ==
    /\ NoParser /\ NoBatch
    /\ text \in Bodies
    /\ MAX_SENT_CHARS \in Budgets
    /\ out = [op |-> "none", arg |-> 0, ret |-> <<>>]

\* one call on the text, recorded with its argument and its return value
Call(op, arg, ret) ==
    /\ out.op = "none"
    /\ out' = [op |-> op, arg |-> arg, ret |-> ret]
    /\ UNCHANGED <<text, MAX_SENT_CHARS, ParserVars, BatchVars>>

CallSummarize(n) == Call("summarize", n, summarize(text, n))
CallKeywordTopk(k) == Call("keyword_topk", k, keyword_topk(text, k))
CallTokenize == Call("tokenize", 0, tokenize(text))
CallSplitSentences == Call("split_sentences", 0, split_sentences(text))

NextText ==
    \/ \E n \in 1..MaxArg : CallSummarize(n)
    \/ \E k \in 0..MaxArg : CallKeywordTopk(k)
    \/ CallTokenize
    \/ CallSplitSentences

SpecText == InitText /\ [][NextText]_vars

(***************************************************************************)
(* Properties of the summarizer                                            *)
(***************************************************************************)
\* a sentence as a summary of more sentences than requested shows it
Shown(s) ==
    IF MAX_SENT_CHARS > 0 /\ Len(s) > MAX_SENT_CHARS
    THEN SubSeq(s, 1, MAX_SENT_CHARS - 1) \o <<"ELLIPSIS">>
    ELSE s

\* the members of a set of integers in increasing order
RECURSIVE Ascending(_)
Ascending(S) ==
    IF S = {} THEN <<>>
    ELSE LET m == CHOOSE x \in S : \A y \in S : x <= y
         IN  <<m>> \o Ascending(S \ {m})

\* the summary made of the sentences at the indices S, in document order
SummaryOf(sents, S) ==
    LET idx == Ascending(S)
    IN  Join([i \in 1..Len(idx) |-> Shown(sents[idx[i]])])

CatsCall ==
    /\ text = CatsBody /\ MAX_SENT_CHARS = DEFAULT_MAX_SENT_CHARS
    /\ out.op = "summarize" /\ out.arg = 2

\* C6 as stated: for the body "Cats are mammals. Dogs are mammals too. Cats
\* and dogs are pets." and max_sentences = 2, summarize returns the first
\* and third sentences: "Cats are mammals. Cats and dogs are pets."
C6_FirstAndThird ==
    CatsCall =>
        out.ret = <<"C","a","t","s"," ","a","r","e"," ","m","a","m","m","a","l","s","."," ",
                    "C","a","t","s"," ","a","n","d"," ","d","o","g","s"," ","a","r","e"," ",
                    "p","e","t","s",".">>

\* C6 amended: for that body and max_sentences = 2, summarize returns the
\* second and third sentences (scores 4, 5, 5) in original order: "Dogs are
\* mammals too. Cats and dogs are pets."
C6_SecondAndThird ==
    CatsCall =>
        /\ Scores(text, split_sentences(text)) = <<4, 5, 5>>
        /\ out.ret = <<"D","o","g","s"," ","a","r","e"," ","m","a","m","m","a","l","s"," ",
                       "t","o","o","."," ",
                       "C","a","t","s"," ","a","n","d"," ","d","o","g","s"," ","a","r","e"," ",
                       "p","e","t","s",".">>

C6_Witness == CatsCall /\ out.ret # <<>>

\* C7: when the text has more sentences than max_sentences, the summary is
\* made of sentences taken at strictly increasing indices of the sentence
\* list, whatever their scores.
C7_SummaryInDocumentOrder ==
    out.op = "summarize" =>
        LET sents == split_sentences(text)
        IN  Len(sents) > out.arg =>
                \E S \in SUBSET (1..Len(sents)) : out.ret = SummaryOf(sents, S)

\* a summary of two or more sentences, pairwise different, in which a
\* sentence comes before one of higher score
C7_Witness ==
    /\ out.op = "summarize" /\ out.arg >= 2
    /\ LET sents  == split_sentences(text)
           scores == Scores(text, sents)
       IN  /\ Len(sents) > out.arg
           /\ \A i, j \in 1..Len(sents) : i # j => sents[i] # sents[j]
           /\ \E S \in SUBSET (1..Len(sents)) :
                 /\ Cardinality(S) = out.arg
                 /\ out.ret = SummaryOf(sents, S)
                 /\ \E i \in S, j \in S : i < j /\ scores[i] < scores[j]

\* C8: when the text has at least one and at most max_sentences sentences,
\* summarize returns all of them joined by single spaces, unchanged if that
\* has at most MAX_SENT_CHARS characters or MAX_SENT_CHARS <= 0, otherwise
\* its first MAX_SENT_CHARS-1 characters and an ellipsis; with the budget
\* enabled the result has at most MAX_SENT_CHARS characters.
C8_ShortTextJoinedAndCut ==
    out.op = "summarize" =>
        LET sents  == split_sentences(text)
            joined == Join(sents)
        IN  (sents # <<>> /\ Len(sents) <= out.arg) =>
              /\ out.ret = IF MAX_SENT_CHARS <= 0 \/ Len(joined) <= MAX_SENT_CHARS
                           THEN joined
                           ELSE SubSeq(joined, 1, MAX_SENT_CHARS - 1) \o <<"ELLIPSIS">>
              /\ MAX_SENT_CHARS > 0 => Len(out.ret) <= MAX_SENT_CHARS

\* two or more sentences, all returned, cut to an enabled budget
C8_Witness ==
    /\ out.op = "summarize"
    /\ LET sents == split_sentences(text)
       IN  /\ Len(sents) >= 2 /\ Len(sents) <= out.arg
           /\ MAX_SENT_CHARS > 1 /\ Len(Join(sents)) > MAX_SENT_CHARS
    /\ Len(out.ret) = MAX_SENT_CHARS /\ out.ret[MAX_SENT_CHARS] = "ELLIPSIS"

\* statistics of a token list
Occurrences(toks, w) == Cardinality({i \in 1..Len(toks) : toks[i] = w})
FirstAt(toks, w) ==
    CHOOSE i \in 1..Len(toks) : toks[i] = w /\ \A j \in 1..(i - 1) : toks[j] # w
Keywords(toks) == {w \in Range(toks) : w \notin STOPWORDS}

\* C9: the list keyword_topk returns holds no stopword, has min(k, number of
\* distinct non-stopword tokens) entries, no duplicates, is ordered by
\* non-increasing frequency, and orders equal frequencies by first
\* occurrence in the text.
C9_TopKeywords ==
    out.op = "keyword_topk" =>
        LET kws  == out.ret.kws
            toks == tokenize(text)
            keys == Keywords(toks)
            occ  == [i \in 1..Len(kws) |-> Occurrences(toks, kws[i])]
        IN  /\ \A i \in 1..Len(kws) : kws[i] \in keys
            /\ Len(kws) = IF out.arg < Cardinality(keys) THEN out.arg
                          ELSE Cardinality(keys)
            /\ \A i, j \in 1..Len(kws) : i < j =>
                  /\ kws[i] # kws[j]
                  /\ occ[i] >= occ[j]
                  /\ occ[i] = occ[j] => FirstAt(toks, kws[i]) < FirstAt(toks, kws[j])

\* fewer keywords asked for than there are, a stopword in the text, two
\* returned keywords of equal frequency and two of different frequency
C9_Witness ==
    /\ out.op = "keyword_topk"
    /\ LET kws  == out.ret.kws
           toks == tokenize(text)
       IN  /\ out.arg < Cardinality(Keywords(toks))
           /\ \E i \in 1..Len(toks) : toks[i] \in STOPWORDS
           /\ \E i, j \in 1..Len(kws) :
                 i < j /\ Occurrences(toks, kws[i]) = Occurrences(toks, kws[j])
           /\ \E i, j \in 1..Len(kws) :
                 i < j /\ Occurrences(toks, kws[i]) > Occurrences(toks, kws[j])

(***************************************************************************)
(* process_one and the batch loop.  The library's HTMLParser.feed turns    *)
(* the HTML text into events; a page is given as that event sequence.      *)
(* web[i] says what fetching and parsing the i-th listed document does:    *)
(* fetch_html raises, feed raises, or the page is parsed.                  *)
(***************************************************************************)
MaxUrls == 3

S(tag, attrs) == [op |-> "start", tag |-> tag, attrs |-> attrs, data |-> <<>>]
E(tag) == [op |-> "end", tag |-> tag, attrs |-> <<>>, data |-> <<>>]
D(data) == [op |-> "data", tag |-> "", attrs |-> <<>>, data |-> data]

\* p.feed(html): the handlers called in document order
RECURSIVE Feed(_, _)
Feed(q, events) ==
    IF events = <<>> THEN q
    ELSE LET e == Head(events)
             q1 == IF e.op = "start" THEN handle_starttag(q, e.tag, e.attrs)
                   ELSE IF e.op = "end" THEN handle_endtag(q, e.tag)
                   ELSE handle_data(q, e.data)
         IN  Feed(q1, Tail(events))

\* ", ".join(kws)
RECURSIVE JoinComma(_)
JoinComma(parts) ==
    IF parts = <<>> THEN <<>>
    ELSE IF Len(parts) = 1 THEN parts[1]
    ELSE parts[1] \o <<",", " ">> \o JoinComma(Tail(parts))

\* the result for an empty body
ExtractionFailed(url, title) ==
    [url |-> url, title |-> title, keywords |-> <<>>,
     summary |-> <<"(", "h_bon", "h_mun", " ", "h_chu", "h_chul", " ", "h_sil", "h_pae", ")">>,
     ok |-> FALSE, freq |-> <<>>]

\* the result for an extracted body
Extracted(url, title, body, n, topk) ==
    LET kw == keyword_topk(body, topk)
    IN  [url |-> url, title |-> title, keywords |-> JoinComma(kw.kws),
         summary |-> summarize(body, n), ok |-> TRUE, freq |-> kw.freq]

\* the result the except clause builds from the exception's message
ErrorResult(url, e) ==
    [url |-> url, title |-> <<>>, keywords |-> <<>>,
     summary |-> <<"(", "h_e", "h_reo", ":", " ">> \o e \o <<")">>,
     ok |-> FALSE, freq |-> <<>>]

PageArticle ==
    <<S("title", <<>>), D(<<"T","o","p","\n">>), E("title"),
      S("div", Id("mw-content-text")),
      S("p", <<>>), D(<<"a","b"," ","c","d","."," ">>),
      S("sup", Class(<<"reference">>)), D(<<"[","1","]">>), E("sup"),
      D(<<"c","d","!">>), E("p"),
      S("script", <<>>), D(<<"v","a","r">>), E("script"),
      E("div")>>
PagePlain ==
    <<S("p", <<>>), D(<<" ","t","h","e"," ","a","b","."," ">>), E("p"),
      S("nav", <<>>), S("p", <<>>), D(<<"m","e","n","u">>), E("p"), E("nav")>>
PageNoBody ==
    <<S("title", <<>>), D(<<"N","o">>), E("title"),
      S("table", <<>>), S("p", <<>>), D(<<"c","e","l","l">>), E("p"), E("table")>>

Urls == {"u1", "u2"}
Worlds ==
    {[fetch |-> "raise", parse |-> "ok", html |-> <<>>, err |-> <<"4","0","4">>],
     [fetch |-> "ok", parse |-> "raise", html |-> PageArticle, err |-> <<"b","a","d">>],
     [fetch |-> "ok", parse |-> "ok", html |-> PageArticle, err |-> <<>>],
     [fetch |-> "ok", parse |-> "ok", html |-> PagePlain, err |-> <<>>],
     [fetch |-> "ok", parse |-> "ok", html |-> PageNoBody, err |-> <<>>]}

\* the run button has not been pressed: a URL list, and what the network
\* and the parser will do for each entry
InitBatch ==
    /\ NoParser /\ NoText
    /\ \E k \in 0..MaxUrls : urls \in [1..k -> Urls] /\ web \in [1..k -> Worlds]
    /\ results = <<>>
    /\ job = [pc |-> "idle", i |-> 0, html |-> <<>>, title |-> <<>>, body |-> <<>>,
              err |-> <<>>]

BatchFrame == UNCHANGED <<urls, web, open, last, seen, nev, TextVars>>

\* "if run:" with an empty list warns; otherwise the comprehension starts
Run ==
    /\ job.pc = "idle"
    /\ job' = IF urls = <<>> THEN [job EXCEPT !.pc = "warned"]
              ELSE [job EXCEPT !.pc = "fetch", !.i = 1]
    /\ UNCHANGED <<p, results>>
    /\ BatchFrame

\* html = fetch_html(url), or the exception it raises
Fetch ==
    /\ job.pc = "fetch"
    /\ job' = IF web[job.i].fetch = "raise"
              THEN [job EXCEPT !.pc = "except", !.err = web[job.i].err]
              ELSE [job EXCEPT !.pc = "parse", !.html = web[job.i].html]
    /\ UNCHANGED <<p, results>>
    /\ BatchFrame

\* the parser of the previous document is fed the next page
Parse_ReuseParser ==
    /\ job.pc = "parse"
    /\ IF web[job.i].parse = "raise"
       THEN /\ job' = [job EXCEPT !.pc = "except", !.err = web[job.i].err]
            /\ UNCHANGED p
       ELSE /\ p' = Feed(p, job.html)
            /\ job' = [job EXCEPT !.pc = "build", !.title = get_title(p'),
                                  !.body = get_text(p')]
    /\ UNCHANGED results
    /\ BatchFrame

\* p = POnlyParser(); p.feed(html); title = p.get_title(); body = p.get_text()
Parse ==
    /\ job.pc = "parse"
    /\ IF web[job.i].parse = "raise"
       THEN /\ job' = [job EXCEPT !.pc = "except", !.err = web[job.i].err]
            /\ UNCHANGED p
       ELSE /\ p' = Feed(NewParser, job.html)
            /\ job' = [job EXCEPT !.pc = "build", !.title = get_title(p'),
                                  !.body = get_text(p')]
    /\ UNCHANGED results
    /\ BatchFrame

\* process_one returns r: the comprehension appends it and goes on
Return(r) ==
    /\ results' = Append(results, r)
    /\ job' = IF job.i = Len(urls) THEN [job EXCEPT !.pc = "done"]
              ELSE [job EXCEPT !.pc = "fetch", !.i = @ + 1]
    /\ UNCHANGED p
    /\ BatchFrame

\* the try block without "if not body": an empty body is summarized too
Build_NoEmptyCheck ==
    /\ job.pc = "build"
    /\ Return(Extracted(urls[job.i], job.title, job.body,
                        DEFAULT_MAX_SENTENCES, DEFAULT_TOPK))

\* the two return statements of the try block
Build ==
    /\ job.pc = "build"
    /\ Return(IF job.body = <<>> THEN ExtractionFailed(urls[job.i], job.title)
              ELSE Extracted(urls[job.i], job.title, job.body,
                             DEFAULT_MAX_SENTENCES, DEFAULT_TOPK))

\* the except clause
Except ==
    /\ job.pc = "except"
    /\ Return(ErrorResult(urls[job.i], job.err))

NextBatch == Run \/ Fetch \/ Parse \/ Build \/ Except

SpecBatch == InitBatch /\ [][NextBatch]_vars

(***************************************************************************)
(* Properties of the batch                                                 *)
(***************************************************************************)
Fails(w) == w.fetch = "raise" \/ w.parse = "raise"

\* what a document gives when it is the only one processed
Alone(url, w) ==
    IF Fails(w) THEN ErrorResult(url, w.err)
    ELSE LET q == Feed(NewParser, w.html)
         IN  IF get_text(q) = <<>> THEN ExtractionFailed(url, get_title(q))
             ELSE Extracted(url, get_title(q), get_text(q),
                            DEFAULT_MAX_SENTENCES, DEFAULT_TOPK)

\* C10: a finished batch holds one result per URL in input order; a document
\* whose fetch or parse failed has ok = false, an empty title, empty
\* keywords, an empty frequency table and an error marker as summary; every
\* other document has the result it gets when processed alone.  While the
\* batch runs, the results so far are those of the documents before the
\* current one.
C10_BatchIsolatesFailures ==
    /\ job.pc \in {"fetch", "parse", "build", "except"} => Len(results) = job.i - 1
    /\ job.pc = "done" => Len(results) = Len(urls)
    /\ \A i \in 1..Len(results) :
          /\ results[i].url = urls[i]
          /\ Fails(web[i]) =>
                /\ ~results[i].ok
                /\ results[i].title = <<>> /\ results[i].keywords = <<>>
                /\ results[i].freq = <<>>
                /\ SubSeq(results[i].summary, 1, 5) = <<"(", "h_e", "h_reo", ":", " ">>
          /\ ~Fails(web[i]) => results[i] = Alone(urls[i], web[i])

\* a finished batch of three documents: an article, then a failure, then
\* an article again
C10_Witness ==
    /\ job.pc = "done" /\ Len(urls) = 3
    /\ ~Fails(web[1]) /\ results[1].ok
    /\ Fails(web[2])
    /\ ~Fails(web[3]) /\ results[3].ok /\ results[3].keywords # <<>>

\* the title and the body the extractor gives for a page
TitleOf(w) == get_title(Feed(NewParser, w.html))
BodyOf(w) == get_text(Feed(NewParser, w.html))

\* C11: process_one returns ok = true exactly when fetch and parse raised
\* nothing and the extracted body is not empty; for an empty body the result
\* has ok = false, empty keywords, an empty frequency table, the fixed
\* extraction-failed marker as summary, and the extracted title.
C11_OkIffBodyExtracted ==
    \A i \in 1..Len(results) :
        /\ results[i].ok <=> (~Fails(web[i]) /\ BodyOf(web[i]) # <<>>)
        /\ (~Fails(web[i]) /\ BodyOf(web[i]) = <<>>) =>
              /\ results[i].keywords = <<>> /\ results[i].freq = <<>>
              /\ results[i].summary =
                    <<"(", "h_bon", "h_mun", " ", "h_chu", "h_chul", " ", "h_sil", "h_pae", ")">>
              /\ results[i].title = TitleOf(web[i])

\* a page with a title and no body, processed after a page with a body
C11_Witness ==
    /\ Len(results) = 2
    /\ ~Fails(web[1]) /\ results[1].ok /\ results[1].summary # <<>>
    /\ ~Fails(web[2]) /\ BodyOf(web[2]) = <<>> /\ results[2].title # <<>>

(***************************************************************************)
(* Further properties of the extractor                                     *)
(***************************************************************************)
TitleText ==
    /\ last.op = "data" /\ Strip(last.data) # <<>>
    /\ InTag("title")
    /\ ~InKind("skip") /\ ~InKind("excluded")

\* C12 as stated: in a well-nested document, non-blank data inside a <title>
\* and outside script/style and excluded elements is appended to title_parts
\* and not to paras, wherever the parser is and whether or not a <p> is open.
C12_TitleTextCollected ==
    TitleText =>
        /\ p.title_parts = Append(last.title_parts, Strip(last.data))
        /\ p.paras = last.paras

\* C12 amended: the same, for documents in which <title> elements are not
\* nested in one another.
C12_TitleTextCollectedUnnested ==
    (TitleText /\ ~seen.nested_title) =>
        /\ p.title_parts = Append(last.title_parts, Strip(last.data))
        /\ p.paras = last.paras

\* title text collected inside an open <p> of the content container
C12_Witness ==
    /\ TitleText /\ ~seen.nested_title
    /\ InTag("p") /\ InKind("root") /\ p.in_p /\ p.in_content
    /\ Len(p.title_parts) = 1

\* the fields of the parser other than skip_stack
Trackers(q) ==
    <<q.exclude_stack, q.content_div_depth, q.in_content, q.in_p, q.in_title,
      q.paras, q.title_parts>>

\* a script or style start tag, a script or style end tag, or data received
\* while skip_stack is not empty
SkipStep ==
    \/ \E e \in StartInputs : e.tag \in {"script", "style"} /\ StartTag(e)
    \/ \E t \in {"script", "style"} : AnyEndTag(t)
    \/ p.skip_stack # <<>> /\ \E d \in DataInputs : Data(d)

\* C15: a script or style start tag, a script or style end tag, and data
\* received while skip_stack is not empty leave exclude_stack,
\* content_div_depth, in_content, in_p, in_title, paras and title_parts
\* unchanged.
C15_SkipLeavesTrackersAlone ==
    [][SkipStep => Trackers(p') = Trackers(p)]_vars

\* non-blank data dropped in a script while a <p> is open and a paragraph
\* was collected before
C15_Witness ==
    /\ last.op = "data" /\ Strip(last.data) # <<>>
    /\ p.skip_stack # <<>> /\ p.exclude_stack = <<>>
    /\ p.in_p /\ p.paras # <<>> /\ p.paras = last.paras

\* C17: under every event sequence content_div_depth >= 0 and in_content
\* holds exactly when content_div_depth > 0, so the guard (in_content or
\* content_div_depth == 0) is true in every reachable state.
C17_DepthAndFlagAgree ==
    /\ p.content_div_depth >= 0
    /\ p.in_content <=> p.content_div_depth > 0
    /\ p.in_content \/ p.content_div_depth = 0

\* paragraph text collected at depth two of the content region, after an
\* end tag that matched no open element
C17_Witness ==
    /\ last.op = "data" /\ p.paras # last.paras
    /\ p.in_content /\ p.content_div_depth = 2
    /\ Len(open) = 3 /\ nev = 5

\* C18: in a well-nested document exclude_stack holds no more entries than
\* there are excluded elements open: it is empty whenever no excluded element
\* is open, in particular at the end of the document.
C18_ExcludeStackNeverOverRetains ==
    /\ Len(p.exclude_stack) <= Cardinality({i \in 1..Len(open) : open[i].kind = "excluded"})
    /\ ~InKind("excluded") => p.exclude_stack = <<>>

\* every element is closed again after an excluded element was open
C18_Witness ==
    /\ seen.excluded /\ last.op = "end" /\ open = <<>> /\ p.exclude_stack = <<>>
    /\ nev = 4 /\ ~seen.root /\ p.paras = <<>> /\ p.skip_stack = <<>>
    /\ ~p.in_p /\ ~p.in_title

(***************************************************************************)
(* Further properties of the text functions                                *)
(***************************************************************************)
\* the maximal runs of two or more letters of s, as <<first, last>> positions
MaximalRuns(s) ==
    {r \in (1..Len(s)) \X (1..Len(s)) :
        /\ r[1] < r[2]
        /\ \A i \in r[1]..r[2] : IsLetter(s[i])
        /\ (r[1] = 1 \/ ~IsLetter(s[r[1] - 1]))
        /\ (r[2] = Len(s) \/ ~IsLetter(s[r[2] + 1]))}

\* C13: tokenize returns exactly the maximal runs of two or more consecutive
\* letters, lower-cased, in order of occurrence; no token has length 1 and
\* no token holds a digit, punctuation or whitespace character.
C13_TokensAreLetterRuns ==
    out.op = "tokenize" =>
        LET runs   == MaximalRuns(text)
            starts == Ascending({r[1] : r \in runs})
            toks   == out.ret
        IN  /\ Len(toks) = Cardinality(runs)
            /\ \A k \in 1..Len(toks) :
                  /\ \E r \in runs :
                        /\ r[1] = starts[k]
                        /\ Len(toks[k]) = r[2] - r[1] + 1
                        /\ \A i \in 1..Len(toks[k]) :
                              toks[k][i] = LowerChar(text[r[1] + i - 1])
                  /\ Len(toks[k]) >= 2
                  /\ \A i \in 1..Len(toks[k]) :
                        toks[k][i] \in Range(LowerLetters) \cup Hangul

\* a text with a single letter between non-letters, a digit inside a word,
\* an upper-case letter and a Hangul word
C13_Witness ==
    /\ out.op = "tokenize" /\ Len(out.ret) >= 3
    /\ \E i \in 2..(Len(text) - 1) :
          IsLetter(text[i]) /\ ~IsLetter(text[i - 1]) /\ ~IsLetter(text[i + 1])
    /\ \E i \in 2..(Len(text) - 1) :
          text[i] = "7" /\ IsLetter(text[i - 1]) /\ IsLetter(text[i + 1])
    /\ \E i \in 1..Len(text) : text[i] \in Range(UpperLetters)
    /\ \E k \in 1..Len(out.ret) : out.ret[k][1] \in Hangul

\* s has a "[" with a "]" somewhere behind it
HasBracketSpan(s) ==
    \E i, j \in 1..Len(s) : i < j /\ s[i] = "[" /\ s[j] = "]"

\* C14 as stated: no sentence split_sentences returns contains a bracketed
\* span, an opening "[" followed later in the sentence by a closing "]";
\* this covers empty "[]" and nested brackets.
C14_NoBracketSpanLeft ==
    out.op = "split_sentences" =>
        \A k \in 1..Len(out.ret) : ~HasBracketSpan(out.ret[k])

\* C14 amended: in a sentence split_sentences returns, an opening "[" that is
\* followed later by a closing "]" is followed by it immediately: spans with
\* at least one character between the brackets are removed (nested ones
\* included), empty "[]" are kept.
C14_OnlyEmptyBracketsLeft ==
    out.op = "split_sentences" =>
        \A k \in 1..Len(out.ret) :
            LET s == out.ret[k]
            IN  \A i, j \in 1..Len(s) :
                    (i < j /\ s[i] = "[" /\ s[j] = "]") => s[i + 1] = "]"

\* a text with "[1]", "[[2]]" and "[]" of which only the "[]" is left
C14_Witness ==
    /\ out.op = "split_sentences"
    /\ \E i \in 1..(Len(text) - 2) : text[i] = "[" /\ text[i + 1] = "1" /\ text[i + 2] = "]"
    /\ \E i \in 1..(Len(text) - 1) : text[i] = "[" /\ text[i + 1] = "["
    /\ \E k \in 1..Len(out.ret) : HasBracketSpan(out.ret[k])

\* the sum, over the non-stopword tokens of a sentence, of the number of
\* times the token occurs in the whole text
FrequencySum(s, txt) ==
    LET toks == tokenize(s)
        all  == tokenize(txt)
    IN  SumSeq([i \in 1..Len(toks) |->
                  IF toks[i] \in STOPWORDS THEN 0 ELSE Occurrences(all, toks[i])])

\* C16: when the text has more sentences than max_sentences >= 1, summarize
\* selects exactly max_sentences of them; no sentence left out has a higher
\* score than a selected one, and of two sentences of equal score the one
\* left out is the later one.
C16_TopScoresSelected ==
    out.op = "summarize" =>
        LET sents == split_sentences(text)
            score == [i \in 1..Len(sents) |-> FrequencySum(sents[i], text)]
        IN  Len(sents) > out.arg =>
              \E Sel \in SUBSET (1..Len(sents)) :
                  /\ Cardinality(Sel) = out.arg
                  /\ out.ret = SummaryOf(sents, Sel)
                  /\ \A i \in Sel, j \in (1..Len(sents)) \ Sel :
                        score[j] < score[i] \/ (score[j] = score[i] /\ i < j)

\* pairwise different sentences, one left out that scores as much as a
\* selected one and one selected that scores more than another selected
C16_Witness ==
    /\ out.op = "summarize"
    /\ MAX_SENT_CHARS = DEFAULT_MAX_SENT_CHARS
    /\ LET sents == split_sentences(text)
           score == [i \in 1..Len(sents) |-> FrequencySum(sents[i], text)]
       IN  /\ Len(sents) > out.arg
           /\ \A i, j \in 1..Len(sents) : i # j => sents[i] # sents[j]
           /\ \E Sel \in SUBSET (1..Len(sents)) :
                 /\ Cardinality(Sel) = out.arg
                 /\ out.ret = SummaryOf(sents, Sel)
                 /\ \E i \in Sel, j \in (1..Len(sents)) \ Sel : score[i] = score[j]
                 /\ \E i \in Sel, j \in Sel : score[i] > score[j]

====
